---- MODULE Spec2Model ----
(***************************************************************************)
(* Model of the EPG fetcher (src/epg_fetcher.py) and of the two HTTP       *)
(* handlers that drive it (src/api/api-server.py).                         *)
(*                                                                         *)
(* A path string is a sequence of tokens ("/" is the separator token, the  *)
(* other tokens are pieces of text), so that str.startswith is a prefix    *)
(* test on the string and not on the path components.  The filesystem is a *)
(* function from resolved paths (sequences of components) to nodes.        *)
(* An Optional[X] value is a sequence of length at most one: <<>> is None. *)
(***************************************************************************)
EXTENDS Integers, Sequences, FiniteSets, TLC

\* ------------------------------------------------------------------ bounds
NumCalls == 2          \* requests / library uses that may be in flight
MaxClock == 1          \* the latest instant (in half seconds) a request may arrive at
TicksPerSecond == 2    \* resolution of the model's clock: two instants per second
MaxFetches == 2        \* fetch() calls a library user makes on one EPGFetcher

Calls == 1..NumCalls

\* ------------------------------------------------------------ path strings
None == <<>>
Some(x) == <<x>>

SEP == "/"

\* str.startswith(prefix)
StartsWith(s, prefix) ==
    /\ Len(s) >= Len(prefix)
    /\ SubSeq(s, 1, Len(prefix)) = prefix

\* os.path.join(a, b)
Join(a, b) ==
    IF b # <<>> /\ b[1] = SEP THEN b
    ELSE IF a = <<>> \/ a[Len(a)] = SEP THEN a \o b
    ELSE a \o <<SEP>> \o b

\* the working directory of the Python process
ProcessCwd == <<"srv", "app">>

\* The components of a path string: the text between separators.
RECURSIVE SplitFrom(_, _, _)
SplitFrom(s, i, cur) ==
    IF i > Len(s) THEN <<cur>>
    ELSE IF s[i] = SEP THEN <<cur>> \o SplitFrom(s, i + 1, "")
    ELSE SplitFrom(s, i + 1, cur \o s[i])

Components(s) == SplitFrom(s, 1, "")

\* What the kernel makes of a list of components: "" and "." are skipped,
\* ".." steps to the parent.
RECURSIVE Walk(_, _, _)
Walk(comps, i, acc) ==
    IF i > Len(comps) THEN acc
    ELSE IF comps[i] = "" \/ comps[i] = "." THEN Walk(comps, i + 1, acc)
    ELSE IF comps[i] = ".."
         THEN Walk(comps, i + 1, IF acc = <<>> THEN acc ELSE SubSeq(acc, 1, Len(acc) - 1))
    ELSE Walk(comps, i + 1, Append(acc, comps[i]))

\* The node a path string names, for a process whose working directory is cwd.
ResolveFrom(cwd, s) ==
    IF s # <<>> /\ s[1] = SEP THEN Walk(Components(s), 1, <<>>)
    ELSE Walk(Components(s), 1, cwd)

Resolve(s) == ResolveFrom(ProcessCwd, s)

\* p is q or lies below q (both resolved)
IsUnder(p, q) == Len(p) >= Len(q) /\ SubSeq(p, 1, Len(q)) = q
StrictlyUnder(p, q) == Len(p) > Len(q) /\ SubSeq(p, 1, Len(q)) = q

\* ------------------------------------------------------------- filesystem
DirNode == [kind |-> "dir", by |-> 0, size |-> 0, content |-> <<>>]
FileNode(c, n) == [kind |-> "file", by |-> c, size |-> n, content |-> <<>>]
\* a channel-list document: the <channel> elements under its root, in order
DocNode(c, elements) ==
    [kind |-> "file", by |-> c, size |-> 1 + Len(elements), content |-> elements]

Exists(f, p) == p \in DOMAIN f

Ancestors(p) == { SubSeq(p, 1, n) : n \in 1..Len(p) }

\* os.makedirs(p, exist_ok=True)
MakeDirs(f, p) ==
    [q \in DOMAIN f \cup Ancestors(p) |-> IF q \in DOMAIN f THEN f[q] ELSE DirNode]

\* open(p, 'w').write(...) by call c; the parent directory must exist
WriteFile(f, p, c, n) ==
    [q \in DOMAIN f \cup {p} |-> IF q = p THEN FileNode(c, n) ELSE f[q]]

\* tree.write(p) of a channel-list document by call c
WriteDoc(f, p, c, elements) ==
    [q \in DOMAIN f \cup {p} |-> IF q = p THEN DocNode(c, elements) ELSE f[q]]

\* shutil.rmtree(p)
RmTree(f, p) ==
    [q \in { r \in DOMAIN f : ~IsUnder(r, p) } |-> f[q]]

\* ------------------------------------------------------------------ state
VARIABLES
    fs,          \* the filesystem: resolved path -> node
    calls,       \* per call: the handler's / library user's locals and position
    clock,       \* wall-clock time, in instants of 1/TicksPerSecond second
    cloneCalls,  \* resolved checkout path -> how often git clone was run on it
    sequential   \* whether the calls are made one after the other (fixed at the start)

vars == <<fs, calls, clock, cloneCalls, sequential>>

\* --------------------------------------------------------------- constants
TMP_PREFIX == <<SEP, "tmp">>                       \* the literal '/tmp' of cleanup()
CACHE_DIR == <<".", SEP, "epg_cache">>             \* './epg_cache'
DEFAULT_OUTPUT_FILE == <<"guide.xml">>             \* fetch(output_file='guide.xml')
DOCKER_OUTPUT_NAME == <<"guide.xml">>              \* the file the container leaves

SampleChannel ==
    [site |-> "arirang.com", lang |-> "en", xmltv_id |-> "ArirangTV.kr",
     site_id |-> "CH_K", name |-> "Arirang TV"]

SecondChannel ==
    [site |-> "arirang.com", lang |-> "ko", xmltv_id |-> "KBS1.kr",
     site_id |-> "CH_B", name |-> "KBS 1"]
\* request data for a channel: one with an empty name, one without a name
NamelessChannel == [SampleChannel EXCEPT !.name = ""]
PartialChannel ==
    [site |-> "arirang.com", lang |-> "en", xmltv_id |-> "ArirangTV.kr", site_id |-> "CH_K"]

\* the inputs the callers are drawn from
WorkDirArgs ==
    { None,
      Some(<<SEP, "tmp", SEP, "shared">>),         \* '/tmp/shared'
      Some(<<".", SEP, "work">>),                  \* './work'
      Some(<<SEP, "tmp", "data", SEP, "work">>) }  \* '/tmpdata/work'
\* the work_dir arguments of library users that run side by side: they share
\* one directory
SharedWorkDirArgs == { Some(<<SEP, "tmp", SEP, "shared">>) }
\* calls that run side by side draw their inputs from the smaller set
Drawn(all, few) == IF sequential THEN all ELSE few
\* (site, channels) as a caller may pass them: neither (as None, and as empty
\* values), one of the two, and both
Requests ==
    { [site |-> None, channels |-> None],
      [site |-> Some(""), channels |-> Some(<<>>)],
      [site |-> Some("cnn.com"), channels |-> None],
      [site |-> None, channels |-> Some(<<SampleChannel, SecondChannel>>)],
      [site |-> Some("cnn.com"), channels |-> Some(<<SampleChannel>>)] }
\* the JSON bodies of POST /api/v1/fetch: channels are dictionaries there
BodyArgs ==
    Requests \cup { [site |-> None, channels |-> Some(<<SampleChannel, NamelessChannel>>)],
                    [site |-> None, channels |-> Some(<<PartialChannel>>)] }
\* ... and of those that run side by side
ConcurrentRequests ==
    { [site |-> Some(""), channels |-> Some(<<>>)],
      [site |-> Some("cnn.com"), channels |-> None],
      [site |-> None, channels |-> Some(<<SampleChannel, SecondChannel>>)] }
FormatArgs == { "xml", "json" }
ToolOutput == "grab log"                           \* what the external tool prints

\* EPGChannel.from_dict(data): the channel, or None where data[...] raises
\* KeyError
ChannelFields == {"site", "lang", "xmltv_id", "site_id", "name"}
from_dict(data) ==
    IF ChannelFields \subseteq DOMAIN data
    THEN Some([site |-> data.site, lang |-> data.lang, xmltv_id |-> data.xmltv_id,
               site_id |-> data.site_id, name |-> data.name])
    ELSE None

\* EPGChannel.to_xml_element: four attributes and the name as the text
to_xml_element(channel) ==
    [site |-> channel.site, lang |-> channel.lang, xmltv_id |-> channel.xmltv_id,
     site_id |-> channel.site_id, text |-> channel.name]

\* create_channels_file: the elements appended to the root, one per channel
ChannelElements(channels) ==
    [i \in 1..Len(channels) |-> to_xml_element(channels[i])]

\* Python truthiness of an Optional[str] and of an Optional[list]
TruthyStr(opt) == opt # None /\ opt[1] # ""
TruthyList(opt) == opt # None /\ Len(opt[1]) > 0

\* datetime.now().strftime('%Y%m%d_%H%M%S'): the instant cut to whole seconds
Timestamp(now) == ToString(now \div TicksPerSecond)

\* tempfile.mkdtemp(prefix='epg_'): a directory name under the temp directory
\* that no other call has; the model names it after the call
MkdtempName(c) == <<SEP, "tmp", SEP, "epg_" \o ToString(c)>>

\* EPGFetcher.__init__: the attributes derived from work_dir
epg_repo_path(work_dir) == Join(work_dir, <<"epg">>)
channels_file(work_dir) == Join(work_dir, <<"channels.xml">>)

IdleCall ==
    [pc |-> "idle", entry |-> "", site |-> None, channels |-> None,
     output_format |-> "xml", work_dir |-> <<>>, setup_done |-> FALSE,
     output_file |-> <<>>, docker_channels |-> <<>>, cmd |-> <<>>,
     cmd_channels |-> <<>>,
     exc |-> "", exc_output |-> None, emitted |-> None, exit_code |-> None,
     wrote |-> FALSE, tool_read |-> 0, result_path |-> None,
     served_by |-> 0, status |-> 0, body |-> "", cleanups |-> 0, cloned |-> FALSE,
     cleanup_exc |-> "", raised |-> "", setup_code |-> None, channels_data |-> None,
     fetches |-> 0]

InitState ==
    /\ fs = [p \in { <<"tmp">>, <<"srv">>, ProcessCwd, Resolve(CACHE_DIR) } |-> DirNode]
    /\ calls = [c \in Calls |-> IdleCall]
    /\ clock = 0
    /\ cloneCalls = [p \in {} |-> 0]

\* requests are served by concurrent workers
Init == InitState /\ sequential = FALSE

\* one caller makes the calls one after the other
SeqInit == InitState /\ sequential = TRUE

Clones(p) == IF p \in DOMAIN cloneCalls THEN cloneCalls[p] ELSE 0

\* a sequential caller moves on only when every other call is over
Alone(c) == sequential => \A d \in Calls \ {c} : calls[d].pc \in {"idle", "gone"}

\* calls start in index order: the calls are interchangeable
MayStart(c) ==
    /\ calls[c].pc = "idle"
    /\ \A d \in Calls : d < c => calls[d].pc # "idle"
    /\ Alone(c)

\* an exception leaves the try block: the finally clause / __exit__ runs next
Raise(rec, type, output) ==
    [rec EXCEPT !.pc = "cleanup", !.exc = type, !.exc_output = output]

\* ----------------------------------------------------------------- clock
\* datetime.now(): an instant no earlier than the last one read
Now == clock..MaxClock

\* ------------------------------------------------------ EPGFetcher.__init__
\* work_dir or tempfile.mkdtemp(prefix='epg_'): the new work_dir and filesystem
NewWorkDir(c, arg) ==
    IF arg # None /\ arg[1] # <<>>
    THEN [work_dir |-> arg[1], fs |-> fs]
    ELSE [work_dir |-> MkdtempName(c), fs |-> MakeDirs(fs, Resolve(MkdtempName(c)))]

\* ------------------------------------------------------------- the callers
\* with EPGFetcher(work_dir) as fetcher: fetcher.fetch(site=..., channels=...)
LibraryUse(c) ==
    /\ MayStart(c)
    /\ \E wd \in Drawn(WorkDirArgs, SharedWorkDirArgs), req \in Drawn(Requests, ConcurrentRequests) :
         LET new == NewWorkDir(c, wd) IN
         /\ calls' = [calls EXCEPT ![c] =
                [@ EXCEPT !.pc = "setup", !.entry = "lib", !.site = req.site,
                          !.channels = req.channels, !.fetches = 1,
                          !.work_dir = new.work_dir, !.output_file = DEFAULT_OUTPUT_FILE]]
         /\ fs' = new.fs
    /\ UNCHANGED <<clock, cloneCalls, sequential>>

\* POST /api/v1/fetch up to the call of fetcher.fetch: the checks of the body,
\* fetcher = EPGFetcher(), and in the channels branch EPGChannel.from_dict
FetchEpgRequest(c) ==
    /\ MayStart(c)
    /\ \E req \in Drawn(BodyArgs, ConcurrentRequests),
          fmt \in Drawn(FormatArgs, {"xml"}), now \in Now :
         IF ~TruthyStr(req.site) /\ ~TruthyList(req.channels)
         THEN /\ calls' = [calls EXCEPT ![c] =
                    [@ EXCEPT !.pc = "done", !.entry = "fetch_epg", !.site = req.site,
                              !.channels = req.channels,
                              !.status = 400, !.body = "error"]]
              /\ fs' = fs
              /\ clock' = clock
         ELSE LET new == NewWorkDir(c, None)
                  name == <<"guide_" \o Timestamp(now) \o ".xml">>
                  started == [calls[c] EXCEPT !.pc = "setup", !.entry = "fetch_epg",
                                              !.site = req.site, !.channels = req.channels,
                                              !.channels_data = req.channels,
                                              !.output_format = fmt,
                                              !.work_dir = new.work_dir,
                                              !.output_file = Join(CACHE_DIR, name)]
              IN
              /\ clock' = now
              /\ calls' = [calls EXCEPT ![c] =
                    IF TruthyStr(req.site) THEN started
                    ELSE IF \E i \in 1..Len(req.channels[1]) : from_dict(req.channels[1][i]) = None
                    THEN Raise(started, "KeyError", None)
                    ELSE [started EXCEPT !.channels =
                            Some([i \in 1..Len(req.channels[1]) |->
                                     from_dict(req.channels[1][i])[1]])]]
              /\ fs' = new.fs
    /\ UNCHANGED <<cloneCalls, sequential>>

\* --------------------------------------------------------- EPGFetcher.setup
RepoOf(c) == Resolve(epg_repo_path(calls[c].work_dir))

\* the checkout holds the tool's files (the clone has finished)
Populated(f, repo) == Exists(f, repo \o <<"package.json">>)
\* a clone has begun at repo and has not finished
Partial(f, repo) == Exists(f, repo) /\ ~Populated(f, repo)
NonEmptyDir(f, p) == \E q \in DOMAIN f : StrictlyUnder(q, p)

\* (mutant of MustClone: the os.path.exists test left out)
MustCloneAlways(f, repo) == TRUE

\* the clone test of setup(): whether git clone is to run
MustClone(f, repo) == ~Exists(f, repo)

\* the exit codes of a subprocess: success and failure
ExitCodes == {0, 1}

\* (mutant of AfterSetupStep: check=True left out, a failed step is passed over)
AfterSetupStepUnchecked(rec, code, next) ==
    [rec EXCEPT !.pc = next, !.setup_code = Some(code), !.setup_done = (next = "build")]

\* subprocess.run(..., check=True) of setup(): a non-zero exit code raises
\* CalledProcessError; otherwise setup() goes on to its next step, which
\* after npm install is _setup_done = True and the return to fetch()
AfterSetupStep(rec, code, next) ==
    IF code # 0
    THEN Raise([rec EXCEPT !.setup_code = Some(code)], "CalledProcessError", None)
    ELSE [rec EXCEPT !.pc = next, !.setup_code = Some(code), !.setup_done = (next = "build")]

\* setup() up to the clone test: the _setup_done shortcut, makedirs, os.path.exists
SetupBegin(c) ==
    /\ calls[c].pc = "setup"
    /\ IF calls[c].setup_done
       THEN /\ calls' = [calls EXCEPT ![c].pc = "build"]
            /\ fs' = fs
       ELSE LET made == MakeDirs(fs, Resolve(calls[c].work_dir)) IN
            /\ fs' = made
            /\ calls' = [calls EXCEPT ![c].pc =
                            IF MustClone(made, RepoOf(c)) THEN "clone" ELSE "npm"]
    /\ UNCHANGED <<clock, cloneCalls, sequential>>

\* git clone starts: it refuses a destination that exists and is not empty,
\* otherwise it creates the destination and begins to fill it
GitCloneStart(c) ==
    /\ calls[c].pc = "clone"
    /\ cloneCalls' = [p \in DOMAIN cloneCalls \cup {RepoOf(c)} |->
                         IF p = RepoOf(c) THEN Clones(p) + 1 ELSE cloneCalls[p]]
    /\ IF Exists(fs, RepoOf(c)) /\ NonEmptyDir(fs, RepoOf(c))
       THEN /\ calls' = [calls EXCEPT ![c] = AfterSetupStep([@ EXCEPT !.cloned = TRUE], 1, "npm")]
            /\ fs' = fs
       ELSE /\ calls' = [calls EXCEPT ![c].pc = "cloning", ![c].cloned = TRUE]
            /\ fs' = MakeDirs(fs, RepoOf(c) \o <<".git">>)
    /\ UNCHANGED <<clock, sequential>>

\* git clone ends: the checkout is complete, or the clone failed (network, or
\* the destination went away under it) and git removed what it had made
GitCloneFinish(c) ==
    /\ calls[c].pc = "cloning"
    /\ \/ /\ Exists(fs, RepoOf(c))
          /\ fs' = WriteFile(fs, RepoOf(c) \o <<"package.json">>, c, 1)
          /\ calls' = [calls EXCEPT ![c] = AfterSetupStep(@, 0, "npm")]
       \/ /\ fs' = RmTree(fs, RepoOf(c))
          /\ calls' = [calls EXCEPT ![c] = AfterSetupStep(@, 1, "npm")]
    /\ UNCHANGED <<clock, cloneCalls, sequential>>

\* npm install with cwd = epg_repo_path, then _setup_done = True
NpmInstall(c) ==
    /\ calls[c].pc = "npm"
    /\ IF ~Exists(fs, RepoOf(c))
       THEN /\ calls' = [calls EXCEPT ![c] = Raise(@, "FileNotFoundError", None)]
            /\ fs' = fs
       ELSE \E code \in ExitCodes :
            /\ fs' = IF code = 0 THEN MakeDirs(fs, RepoOf(c) \o <<"node_modules">>) ELSE fs
            /\ calls' = [calls EXCEPT ![c] = AfterSetupStep(@, code, "build")]
    /\ UNCHANGED <<clock, cloneCalls, sequential>>

\* --------------------------------------------------------- EPGFetcher.fetch
Parent(p) == SubSeq(p, 1, Len(p) - 1)

\* who wrote the file at p (0: there is no such file)
WriterOf(f, p) == IF Exists(f, p) /\ f[p].kind = "file" THEN f[p].by ELSE 0

\* the site / channels branch of fetch(): which selector the command gets
Selector(site, channels) ==
    IF TruthyStr(site) THEN "--site"
    ELSE IF TruthyList(channels) THEN "--channels"
    ELSE "ValueError"

\* fetch() from "Build command" to the subprocess call; create_channels_file
BuildCommand(c) ==
    /\ calls[c].pc = "build"
    /\ LET sel == Selector(calls[c].site, calls[c].channels)
           doc == channels_file(calls[c].work_dir)
           rest == <<"--output", "--maxConnections", "--timeout", "--delay">>
       IN
       \/ /\ sel = "--site"
          /\ calls' = [calls EXCEPT ![c].pc = "run", ![c].cmd = <<"--site">> \o rest]
          /\ fs' = fs
       \/ /\ sel = "--channels"
          /\ Exists(fs, Parent(Resolve(doc)))
          /\ calls' = [calls EXCEPT ![c].pc = "run", ![c].cmd = <<"--channels">> \o rest,
                                    ![c].cmd_channels = doc]
          /\ fs' = WriteDoc(fs, Resolve(doc), c, ChannelElements(calls[c].channels[1]))
       \/ /\ sel = "--channels"
          /\ ~Exists(fs, Parent(Resolve(doc)))
          /\ calls' = [calls EXCEPT ![c] = Raise(@, "FileNotFoundError", None)]
          /\ fs' = fs
       \/ /\ sel = "ValueError"
          /\ calls' = [calls EXCEPT ![c] = Raise(@, "ValueError", None)]
          /\ fs' = fs
    /\ UNCHANGED <<clock, cloneCalls, sequential>>

\* what the external tool may do in one run: its exit code, and whether it
\* leaves no output file, an empty one, or one with data in it
ToolWrites == {"nothing", "empty", "data"}
WrittenSize(w) == IF w = "data" THEN 1 ELSE 0

\* the output file of a tool run, put at target by call c
ToolFs(f, target, c, w) ==
    IF w = "nothing" THEN f
    ELSE WriteFile(MakeDirs(f, Parent(target)), target, c, WrittenSize(w))

\* subprocess.run(..., capture_output=...): the output CalledProcessError carries
Captured(capture_output, emitted) == IF capture_output THEN emitted ELSE None

\* subprocess.run(cmd, cwd=epg_repo_path, check=True, capture_output=True, text=True)
RunGrab(c) ==
    /\ calls[c].pc = "run"
    /\ IF ~Exists(fs, RepoOf(c))
       THEN /\ calls' = [calls EXCEPT ![c] = Raise(@, "FileNotFoundError", None)]
            /\ fs' = fs
       ELSE \E code \in ExitCodes, w \in ToolWrites :
            LET target == ResolveFrom(RepoOf(c), calls[c].output_file)
                read == IF calls[c].cmd[1] = "--channels"
                        THEN WriterOf(fs, ResolveFrom(RepoOf(c), calls[c].cmd_channels))
                        ELSE 0
                ran == [calls[c] EXCEPT !.emitted = Some(ToolOutput), !.exit_code = Some(code),
                                        !.wrote = (w # "nothing"), !.tool_read = read]
            IN
            /\ fs' = ToolFs(fs, target, c, w)
            /\ calls' = [calls EXCEPT ![c] =
                            IF code # 0
                            THEN Raise(ran, "CalledProcessError", Captured(TRUE, ran.emitted))
                            ELSE [ran EXCEPT !.pc = "locate"]]
    /\ UNCHANGED <<clock, cloneCalls, sequential>>

\* The external process does not exit. subprocess.run is called without a
\* timeout, in fetch and in fetch_with_docker alike: the call waits for the
\* process for as long as it runs.
ToolHangs(c) ==
    /\ calls[c].pc \in {"run", "docker_run"}
    /\ calls[c].pc = "run" => Exists(fs, RepoOf(c))
    /\ calls' = [calls EXCEPT ![c].pc = "blocked"]
    /\ UNCHANGED <<fs, clock, cloneCalls, sequential>>

\* the artifact test: os.path.exists(output_path)
ArtifactFound(f, path) == Exists(f, Resolve(path))

\* fetch() from "Get output file path" to return
Locate(c) ==
    /\ calls[c].pc = "locate"
    /\ LET output_path == Join(epg_repo_path(calls[c].work_dir), calls[c].output_file) IN
       calls' = [calls EXCEPT ![c] =
                    IF ArtifactFound(fs, output_path)
                    THEN [@ EXCEPT !.pc = "respond", !.result_path = Some(output_path)]
                    ELSE Raise(@, "FileNotFoundError", None)]
    /\ UNCHANGED <<fs, clock, cloneCalls, sequential>>

\* --------------------------------------------- fetch_epg_docker, fetch_with_docker
\* the arguments of a library user's fetch_with_docker
DOCKER_CHANNELS_ARG == <<"channels.xml">>          \* channels_file='channels.xml'
DOCKER_OUTPUT_ARG == <<".", SEP, "output">>        \* output_dir='./output'

\* the callers that are library users, and the calls that use the container
LibEntries == {"lib", "lib_docker"}
DockerEntries == {"fetch_epg_docker", "lib_docker"}

\* fetcher = EPGFetcher(), then fetcher.fetch_with_docker(channels_file, output_dir)
\* in a try block with cleanup() in its finally clause; the user may or may
\* not have put a channel list at channels_file beforehand
LibraryDockerUse(c) ==
    /\ MayStart(c)
    /\ \E prepared \in BOOLEAN :
         LET new == NewWorkDir(c, None) IN
         /\ calls' = [calls EXCEPT ![c] =
                [@ EXCEPT !.pc = "docker_check", !.entry = "lib_docker",
                          !.work_dir = new.work_dir,
                          !.docker_channels = DOCKER_CHANNELS_ARG,
                          !.output_file = DOCKER_OUTPUT_ARG]]
         /\ fs' = IF prepared THEN WriteFile(new.fs, Resolve(DOCKER_CHANNELS_ARG), c, 1)
                  ELSE new.fs
    /\ UNCHANGED <<clock, cloneCalls, sequential>>

\* POST /api/v1/fetch-docker up to os.makedirs(output_dir)
DockerRequest(c) ==
    /\ MayStart(c)
    /\ \E has_channels_xml \in BOOLEAN, now \in Now :
         IF ~has_channels_xml
         THEN /\ calls' = [calls EXCEPT ![c] =
                    [@ EXCEPT !.pc = "done", !.entry = "fetch_epg_docker",
                              !.status = 400, !.body = "error"]]
              /\ fs' = fs
              /\ clock' = clock
         ELSE LET ts == Timestamp(now)
                  output_dir == Join(CACHE_DIR, <<"output_" \o ts>>)
              IN
              /\ clock' = now
              /\ calls' = [calls EXCEPT ![c] =
                    [@ EXCEPT !.pc = "docker_write", !.entry = "fetch_epg_docker",
                              !.docker_channels = Join(CACHE_DIR, <<"channels_" \o ts \o ".xml">>),
                              !.output_file = output_dir]]
              /\ fs' = MakeDirs(fs, Resolve(output_dir))
    /\ UNCHANGED <<cloneCalls, sequential>>

\* the handler writes channels_xml to channels_file, then fetcher = EPGFetcher()
DockerWriteChannels(c) ==
    /\ calls[c].pc = "docker_write"
    /\ LET written == WriteFile(fs, Resolve(calls[c].docker_channels), c, 1)
           made == MkdtempName(c)
       IN
       /\ fs' = MakeDirs(written, Resolve(made))
       /\ calls' = [calls EXCEPT ![c].pc = "docker_check", ![c].work_dir = made]
    /\ UNCHANGED <<clock, cloneCalls, sequential>>

\* (mutant of DockerCheckFs: the output directory made before the test of
\* channels_file)
DockerCheckFsEager(f, channels, output_dir) == MakeDirs(f, Resolve(output_dir))

\* fetch_with_docker up to the docker command: the filesystem it leaves
DockerCheckFs(f, channels, output_dir) ==
    IF Exists(f, Resolve(channels)) THEN MakeDirs(f, Resolve(output_dir)) ELSE f

\* fetch_with_docker up to the docker command
DockerCheck(c) ==
    /\ calls[c].pc = "docker_check"
    /\ calls' = [calls EXCEPT ![c] =
                    IF ~Exists(fs, Resolve(calls[c].docker_channels))
                    THEN Raise(@, "FileNotFoundError", None)
                    ELSE [@ EXCEPT !.pc = "docker_run"]]
    /\ fs' = DockerCheckFs(fs, calls[c].docker_channels, calls[c].output_file)
    /\ UNCHANGED <<clock, cloneCalls, sequential>>

\* subprocess.run(cmd, check=True): the container reads the mounted channel
\* list and may leave guide.xml in the mounted output directory
DockerRun(c) ==
    /\ calls[c].pc = "docker_run"
    /\ \E code \in ExitCodes, w \in ToolWrites :
         LET target == Resolve(Join(calls[c].output_file, DOCKER_OUTPUT_NAME))
             ran == [calls[c] EXCEPT !.emitted = Some(ToolOutput), !.exit_code = Some(code),
                                     !.wrote = (w # "nothing"),
                                     !.tool_read = WriterOf(fs, Resolve(calls[c].docker_channels))]
         IN
         /\ fs' = ToolFs(fs, target, c, w)
         /\ calls' = [calls EXCEPT ![c] =
                         IF code # 0
                         THEN Raise(ran, "CalledProcessError", Captured(FALSE, ran.emitted))
                         ELSE [ran EXCEPT !.pc = "docker_locate"]]
    /\ UNCHANGED <<clock, cloneCalls, sequential>>

\* fetch_with_docker from output_file = ... to return
DockerLocate(c) ==
    /\ calls[c].pc = "docker_locate"
    /\ LET output_path == Join(calls[c].output_file, DOCKER_OUTPUT_NAME) IN
       calls' = [calls EXCEPT ![c] =
                    IF ArtifactFound(fs, output_path)
                    THEN [@ EXCEPT !.pc = "respond", !.result_path = Some(output_path)]
                    ELSE Raise(@, "FileNotFoundError", None)]
    /\ UNCHANGED <<fs, clock, cloneCalls, sequential>>

\* ---------------------------------------------------------------- clear_cache
\* os.listdir(CACHE_DIR) narrowed by os.path.isfile: the regular files that
\* lie directly in the cache directory
CacheFiles(f) ==
    { p \in DOMAIN f : Parent(p) = Resolve(CACHE_DIR) /\ f[p].kind = "file" }

\* POST /api/v1/cache/clear: os.remove of each of them (with none of them
\* there the request changes nothing); a sequential caller sends it between
\* two other requests
ClearCache ==
    /\ sequential => \A c \in Calls : calls[c].pc \in {"idle", "gone"}
    /\ CacheFiles(fs) # {}
    /\ fs' = [q \in DOMAIN fs \ CacheFiles(fs) |-> fs[q]]
    /\ UNCHANGED <<calls, clock, cloneCalls, sequential>>

\* ------------------------------------------------------- handing the result on
\* The caller takes the returned path: the with-body of a library user, or
\* the handler's send_file (which opens the file) / jsonify (which reports
\* the path)
Respond(c) ==
    /\ calls[c].pc = "respond"
    /\ LET path == Resolve(calls[c].result_path[1]) IN
       \/ /\ calls[c].entry \in LibEntries
          /\ calls' = [calls EXCEPT ![c].pc = "cleanup", ![c].body = "path"]
       \/ /\ calls[c].entry \notin LibEntries
          /\ calls[c].entry = "fetch_epg_docker" \/ calls[c].output_format = "xml"
          /\ calls' = [calls EXCEPT ![c] =
                IF Exists(fs, path)
                THEN [@ EXCEPT !.pc = "cleanup", !.status = 200, !.body = "file",
                               !.served_by = WriterOf(fs, path)]
                ELSE Raise(@, "FileNotFoundError", None)]
       \/ /\ calls[c].entry = "fetch_epg"
          /\ calls[c].output_format # "xml"
          /\ calls' = [calls EXCEPT ![c].pc = "cleanup", ![c].status = 200, ![c].body = "json"]
    /\ UNCHANGED <<fs, clock, cloneCalls, sequential>>

\* ------------------------------------------------------- EPGFetcher.cleanup
\* (mutant of CleanupRemoves: the '/tmp' test left out)
CleanupRemovesAnywhere(f, work_dir) == Exists(f, Resolve(work_dir))

\* the test of cleanup(): whether the tree is removed
CleanupRemoves(f, work_dir) ==
    Exists(f, Resolve(work_dir)) /\ StartsWith(work_dir, TMP_PREFIX)

\* cleanup(): the filesystem it leaves
CleanupFs(f, work_dir) ==
    IF CleanupRemoves(f, work_dir) THEN RmTree(f, Resolve(work_dir)) ELSE f

\* shutil.rmtree returns, or raises (a file it may not remove) and leaves the
\* tree as it is
RmtreeErrors == {"", "OSError"}

\* cleanup() runs in a finally clause / in __exit__: an exception it raises
\* takes the place of the one that was on its way out of the try block
Propagated(exc, cleanup_exc) == IF cleanup_exc # "" THEN cleanup_exc ELSE exc

\* the finally clause / __exit__; a handler then answers 500 if an exception
\* comes out of it
Cleanup(c) ==
    /\ calls[c].pc = "cleanup"
    /\ \E err \in (IF CleanupRemoves(fs, calls[c].work_dir) THEN RmtreeErrors ELSE {""}) :
         LET out == Propagated(calls[c].exc, err)
             after == [calls[c] EXCEPT !.pc = "cleaned", !.cleanups = 1,
                                       !.cleanup_exc = err, !.raised = out]
         IN
         /\ fs' = IF err = "" THEN CleanupFs(fs, calls[c].work_dir) ELSE fs
         /\ calls' = [calls EXCEPT ![c] =
                         IF after.entry \notin LibEntries /\ out # ""
                         THEN [after EXCEPT !.status = 500, !.body = "error"]
                         ELSE after]
    /\ UNCHANGED <<clock, cloneCalls, sequential>>

\* a library user whose with block ended without an exception calls cleanup()
\* once more
CleanupAgain(c) ==
    /\ calls[c].pc = "cleaned"
    /\ calls[c].entry = "lib"
    /\ calls[c].cleanup_exc = ""
    /\ fs' = CleanupFs(fs, calls[c].work_dir)
    /\ calls' = [calls EXCEPT ![c].pc = "done", ![c].cleanups = 2]
    /\ UNCHANGED <<clock, cloneCalls, sequential>>

\* a library user calls fetch() again on the fetcher it has cleaned up: the
\* object keeps work_dir and _setup_done, the locals of the last fetch are gone
FetchAgain(c) ==
    /\ calls[c].pc = "cleaned"
    /\ calls[c].entry = "lib"
    /\ calls[c].cleanup_exc = ""
    /\ calls[c].fetches < MaxFetches
    /\ calls' = [calls EXCEPT ![c] =
                    [IdleCall EXCEPT !.pc = "setup", !.entry = "lib", !.site = calls[c].site,
                                     !.channels = calls[c].channels,
                                     !.work_dir = calls[c].work_dir,
                                     !.output_file = calls[c].output_file,
                                     !.setup_done = calls[c].setup_done,
                                     !.fetches = calls[c].fetches + 1]]
    /\ UNCHANGED <<fs, clock, cloneCalls, sequential>>

\* the request is over: the handler's (the library user's) locals are gone
Forget(c) ==
    /\ calls[c].pc \in {"cleaned", "done"}
    /\ calls' = [calls EXCEPT ![c] = [IdleCall EXCEPT !.pc = "gone"]]
    /\ UNCHANGED <<fs, clock, cloneCalls, sequential>>

\* ------------------------------------------------------------ specification
\* a step of call c
CallStep(c) ==
    \/ LibraryUse(c)
    \/ FetchEpgRequest(c)
    \/ DockerRequest(c)
    \/ LibraryDockerUse(c)
    \/ DockerWriteChannels(c)
    \/ SetupBegin(c)
    \/ GitCloneStart(c)
    \/ GitCloneFinish(c)
    \/ NpmInstall(c)
    \/ BuildCommand(c)
    \/ RunGrab(c)
    \/ ToolHangs(c)
    \/ Locate(c)
    \/ DockerCheck(c)
    \/ DockerRun(c)
    \/ DockerLocate(c)
    \/ Respond(c)
    \/ Cleanup(c)
    \/ CleanupAgain(c)
    \/ FetchAgain(c)
    \/ Forget(c)

Next ==
    \/ ClearCache
    \/ \E c \in Calls : CallStep(c)

\* any interleaving of the steps of concurrent calls
Spec == Init /\ [][Next]_vars

\* the calls made one after the other
SeqSpec == SeqInit /\ [][Next]_vars

\* ================================================================== claims
HttpEntries == {"fetch_epg", "fetch_epg_docker"}
InFlightHttp(c) ==
    /\ calls[c].entry \in HttpEntries
    /\ calls[c].pc \notin {"idle", "cleaned", "done", "gone"}
Over(c) == calls[c].pc \in {"cleaned", "done"}
NeitherGiven(c) == ~TruthyStr(calls[c].site) /\ ~TruthyList(calls[c].channels)
BothGiven(c) == TruthyStr(calls[c].site) /\ TruthyList(calls[c].channels)
EphemeralRoot == Resolve(TMP_PREFIX)

\* call c takes a cleanup() step (the first or a repeated one) and cleanup()
\* returns
CleanupStep(c) ==
    /\ calls[c].pc \in {"cleanup", "cleaned"}
    /\ calls'[c].pc \in {"cleaned", "done"}
    /\ calls'[c].pc # calls[c].pc
    /\ calls'[c].cleanup_exc = ""

C2_ValidationBeforeWorkspace ==
    \A c \in Calls :
      (calls[c].pc = "cleanup" /\ calls[c].exc = "ValueError") =>
        /\ NeitherGiven(c)
        /\ ~calls[c].setup_done
        /\ ~calls[c].cloned
        /\ ~Exists(fs, Resolve(calls[c].work_dir))

\* C3: every path a cleanup() step removes lies strictly inside the
\* ephemeral root /tmp.
C3_CleanupStaysInsideRoot ==
    [][\A c \in Calls :
          CleanupStep(c) =>
            \A p \in DOMAIN fs \ DOMAIN fs' : StrictlyUnder(p, EphemeralRoot)]_vars

\* where call c's tool reads its channel list and leaves its output
ChannelsPathOf(c) ==
    IF calls[c].entry \in DockerEntries THEN Resolve(calls[c].docker_channels)
    ELSE Resolve(channels_file(calls[c].work_dir))
OutputPathOf(c) ==
    IF calls[c].entry \in DockerEntries
    THEN Resolve(Join(calls[c].output_file, DOCKER_OUTPUT_NAME))
    ELSE Resolve(Join(epg_repo_path(calls[c].work_dir), calls[c].output_file))

\* C4: two HTTP fetch requests in flight never share a channel-list path or
\* an output path, and no request's tool reads, and no request serves, a file
\* another call wrote.
C4_RequestsAreIsolated ==
    /\ \A c, d \in Calls :
         (c # d /\ InFlightHttp(c) /\ InFlightHttp(d)) =>
           /\ ChannelsPathOf(c) # ChannelsPathOf(d)
           /\ OutputPathOf(c) # OutputPathOf(d)
    /\ \A c \in Calls :
         calls[c].entry \in HttpEntries =>
           /\ calls[c].tool_read \in {0, c}
           /\ calls[c].served_by \in {0, c}

\* C5: a call whose tool exited 0 without leaving an output file in this run
\* never gets a path back.
C5_NoArtifactNoPath ==
    \A c \in Calls :
      (calls[c].exit_code = Some(0) /\ ~calls[c].wrote) => calls[c].result_path = None

\* C6: a call whose tool exited non-zero ends with an execution error that
\* carries the output the tool emitted, and gets no path back -- in the local
\* and in the container variant.
C6_FailureCarriesOutput ==
    \A c \in Calls :
      (calls[c].exit_code # None /\ calls[c].exit_code # Some(0)) =>
        /\ calls[c].exc = "CalledProcessError"
        /\ calls[c].exc_output # None
        /\ calls[c].exc_output = calls[c].emitted
        /\ calls[c].result_path = None

\* C7: once the handler has cleaned up, the path fetch_epg reported to the
\* client still names an existing file outside the removed work_dir.
C7_ReportedPathSurvivesCleanup ==
    \A c \in Calls :
      (Over(c) /\ calls[c].status = 200 /\ calls[c].body = "json") =>
        /\ Exists(fs, Resolve(calls[c].result_path[1]))
        /\ ~IsUnder(Resolve(calls[c].result_path[1]), Resolve(calls[c].work_dir))

\* C8: in calls made one after the other, no step taken while a tool cache
\* is populated runs git clone on it: its clone count stays as it is, however
\* many calls share it.
C8_PopulatedCacheNotRecloned ==
    [][\A p \in DOMAIN cloneCalls' :
          Populated(fs, p) => (p \in DOMAIN cloneCalls /\ cloneCalls'[p] = cloneCalls[p])]_vars

\* C8 witness: a later call has finished setup on a populated cache without
\* cloning, and the cache has been cloned exactly once in total
C8_Witness ==
    \E c \in Calls :
      /\ calls[c].setup_done
      /\ ~calls[c].cloned
      /\ Clones(RepoOf(c)) = 1
      /\ Populated(fs, RepoOf(c))

\* C9: a request with both site and channels populated is rejected: no setup
\* step is performed and no command is built for it.
C9_BothRejected ==
    \A c \in Calls :
      BothGiven(c) =>
        /\ ~calls[c].setup_done
        /\ calls[c].cmd = <<>>
        /\ calls[c].pc \notin {"run", "locate", "respond"}

\* C10: first-use setup of a shared cache is mutually exclusive: no two calls
\* are in the clone step of the same checkout at once, and no call goes on to
\* npm install or to the tool while that checkout is only partially cloned.
C10_SetupMutuallyExclusive ==
    /\ \A c, d \in Calls :
         (c # d /\ calls[c].pc \in {"clone", "cloning"} /\ calls[d].pc \in {"clone", "cloning"})
           => RepoOf(c) # RepoOf(d)
    /\ \A c \in Calls :
         calls[c].pc \in {"npm", "build", "run"} => ~Partial(fs, RepoOf(c))

\* C11: clear_cache never takes away a file that a request in flight has
\* written and still needs: from the moment fetch_epg_docker has written its
\* channel-list document until the container has run, the document is there.
C11_ClearCacheSparesInFlight ==
    \A c \in Calls :
      (calls[c].entry = "fetch_epg_docker" /\ calls[c].pc \in {"docker_check", "docker_run"})
        => Exists(fs, Resolve(calls[c].docker_channels))

\* C12: fetch and fetch_with_docker never return the path of a zero-byte
\* output file: when a call has a path returned to it, the file at that path
\* is there and has data in it.
C12_NoEmptyArtifactReturned ==
    \A c \in Calls :
      calls[c].pc = "respond" =>
        /\ Exists(fs, Resolve(calls[c].result_path[1]))
        /\ fs[Resolve(calls[c].result_path[1])].size > 0

\* C13: when the fetch has failed and the cleanup that follows fails too, the
\* error that reaches the caller is the error of the fetch.
C13_FetchErrorSurvivesCleanupFailure ==
    \A c \in Calls :
      (Over(c) /\ calls[c].exc # "" /\ calls[c].cleanup_exc # "")
        => calls[c].raised = calls[c].exc

\* the setup of call c has failed: git clone or npm install ended with a
\* non-zero exit code
SetupFailed(c) == calls[c].setup_code # None /\ calls[c].setup_code[1] # 0

\* C14: if git clone or npm install fails, fetch ends with that error: the
\* call is on its way out with CalledProcessError, _setup_done is false, no
\* grab command has been built or run, and the call has written no
\* channel-list document.
C14_SetupFailureAbortsFetch ==
    \A c \in Calls :
      SetupFailed(c) =>
        /\ calls[c].pc \in {"cleanup", "cleaned", "done"}
        /\ calls[c].exc = "CalledProcessError"
        /\ ~calls[c].setup_done
        /\ calls[c].cmd = <<>>
        /\ calls[c].exit_code = None
        /\ WriterOf(fs, Resolve(channels_file(calls[c].work_dir))) # c

\* C14 witness: a by-channels fetch whose clone succeeded and whose npm
\* install failed, at the point where the error leaves fetch
C14_Witness ==
    \E c \in Calls :
      /\ SetupFailed(c)
      /\ calls[c].pc = "cleanup"
      /\ Populated(fs, RepoOf(c))
      /\ Selector(calls[c].site, calls[c].channels) = "--channels"

\* C15: a fetch call is never stuck behind an external process that does not
\* exit: while the call waits for such a process it still has a step to take
\* (the ceiling's timeout, which ends the process and fails the call).
C15_BlockedCallCanGoOn ==
    \A c \in Calls : calls[c].pc = "blocked" => ENABLED CallStep(c)

\* a field of the channel data is absent or empty
BadChannel(data) ==
    \E f \in ChannelFields : f \notin DOMAIN data \/ data[f] = ""

\* the request of call c has channel data converted by from_dict, and one of
\* the channels is bad
BadChannelGiven(c) ==
    /\ calls[c].entry = "fetch_epg"
    /\ ~TruthyStr(calls[c].site)
    /\ calls[c].channels_data # None
    /\ \E i \in 1..Len(calls[c].channels_data[1]) : BadChannel(calls[c].channels_data[1][i])

\* C16: channel data with an absent or empty field is refused by from_dict:
\* the request is answered with a client error, no command is built for it,
\* and no channel-list document holds a channel with an empty attribute or
\* an empty name.
C16_BadChannelRefused ==
    /\ \A c \in Calls :
         BadChannelGiven(c) =>
           /\ calls[c].cmd = <<>>
           /\ Over(c) => calls[c].status = 400
    /\ \A p \in DOMAIN fs :
         \A i \in 1..Len(fs[p].content) :
           \A a \in DOMAIN fs[p].content[i] : fs[p].content[i][a] # ""

\* the grab command of call c has been executed and the call has not yet
\* cleaned up
GrabRan(c) ==
    /\ calls[c].entry \in {"lib", "fetch_epg"}
    /\ calls[c].exit_code # None
    /\ calls[c].pc \in {"locate", "respond", "cleanup"}

Options(cmd) == { cmd[i] : i \in 1..Len(cmd) }

\* C17: an executed grab command has exactly one of --site and --channels;
\* with --channels, the path in the command names, for the tool that is run
\* with it, a document written by this call that has one element per channel
\* of this call's list, in the list's order; with --site the call has written
\* no channel-list document.
C17_CommandNamesOwnChannelList ==
    \A c \in Calls :
      GrabRan(c) =>
        LET cmd == calls[c].cmd
            seen == ResolveFrom(RepoOf(c), calls[c].cmd_channels)
        IN
        /\ ("--site" \in Options(cmd)) # ("--channels" \in Options(cmd))
        /\ "--channels" \in Options(cmd) =>
             /\ WriterOf(fs, seen) = c
             /\ Len(fs[seen].content) = Len(calls[c].channels[1])
             /\ \A i \in 1..Len(calls[c].channels[1]) :
                  /\ fs[seen].content[i].xmltv_id = calls[c].channels[1][i].xmltv_id
                  /\ fs[seen].content[i].text = calls[c].channels[1][i].name
        /\ "--site" \in Options(cmd) =>
             WriterOf(fs, Resolve(channels_file(calls[c].work_dir))) # c

\* C18: while a fetcher with _setup_done true is in use (in setup(), or in
\* fetch() up to the call of the tool), its checkout directory exists.
C18_SetupDoneMeansCheckout ==
    \A c \in Calls :
      (calls[c].setup_done /\ calls[c].pc \in {"setup", "build", "run"})
        => Exists(fs, RepoOf(c))

\* C19: a fetch_with_docker that finds no file at channels_file ends with
\* FileNotFoundError in that very step: the filesystem is as it was (no
\* output directory made) and no container has been started.
C19_MissingChannelsFileChangesNothing ==
    [][\A c \in Calls :
          (/\ calls[c].pc = "docker_check"
           /\ calls'[c] # calls[c]
           /\ ~Exists(fs, Resolve(calls[c].docker_channels)))
          => /\ fs' = fs
             /\ cloneCalls' = cloneCalls
             /\ calls'[c].pc = "cleanup"
             /\ calls'[c].exc = "FileNotFoundError"
             /\ calls'[c].exit_code = None
             /\ calls'[c].emitted = None]_vars

\* C19 witness: a library user's fetch_with_docker has failed on the missing
\* channels_file, and the output directory it was given does not exist
C19_Witness ==
    \E c \in Calls :
      /\ calls[c].entry = "lib_docker"
      /\ calls[c].pc = "cleanup"
      /\ calls[c].exc = "FileNotFoundError"
      /\ calls[c].exit_code = None
      /\ ~Exists(fs, Resolve(calls[c].docker_channels))
      /\ ~Exists(fs, Resolve(calls[c].output_file))

====
